---- MODULE Spec2Model ----
\* A model of dht/meta.go: one metadata-exchange session (Meta.Start) with a
\* single peer.  Bytes are naturals 0..255, byte strings are sequences of
\* bytes, and every frame the peer sends is a byte string that the session
\* parses exactly as the code does (bytes.Index for "ee", then bencode).
EXTENDS Integers, Sequences, FiniteSets, TLC

\* ------------------------------------------------------------------ bytes
\* ASCII codes of the characters the wire format uses.
Ch == [d |-> 100, e |-> 101, i |-> 105, l |-> 108, colon |-> 58,
       minus |-> 45, plus |-> 43, zero |-> 48]

\* A Go []byte: a nil slice differs from an empty non-nil slice.
NilSlice == [nil |-> TRUE, b |-> <<>>]
Slice(b) == [nil |-> FALSE, b |-> b]

\* s[from:] of Go (from is a 0-based offset, 0 <= from <= len(s)).
SliceFrom(s, from) == SubSeq(s, from + 1, Len(s))
\* s[:to] of Go.
SliceTo(s, to) == SubSeq(s, 1, to)

RECURSIVE IndexFrom(_, _, _)
\* 0-based offset of the first occurrence of sep in s at or after offset k,
\* or -1 (bytes.Index).
IndexFrom(s, sep, k) ==
  IF k + Len(sep) > Len(s) THEN -1
  ELSE IF SubSeq(s, k + 1, k + Len(sep)) = sep THEN k
  ELSE IndexFrom(s, sep, k + 1)
Index(s, sep) == IndexFrom(s, sep, 0)

\* ---------------------------------------------------------------- bencode
\* Dictionary keys of the protocol, as byte strings.
KeyMsgType == <<109, 115, 103, 95, 116, 121, 112, 101>>                      \* "msg_type"
KeyPiece == <<112, 105, 101, 99, 101>>                                       \* "piece"
KeyTotalSize == <<116, 111, 116, 97, 108, 95, 115, 105, 122, 101>>           \* "total_size"
KeyMetadataSize == <<109, 101, 116, 97, 100, 97, 116, 97, 95, 115, 105, 122, 101>> \* "metadata_size"
KeyM == <<109>>                                                              \* "m"
KeyUtMetadata == <<117, 116, 95, 109, 101, 116, 97, 100, 97, 116, 97>>       \* "ut_metadata"

RECURSIVE Digits(_)
\* Decimal digits of n >= 0.
Digits(n) == IF n < 10 THEN <<Ch.zero + n>> ELSE Digits(n \div 10) \o <<Ch.zero + (n % 10)>>
Itoa(n) == IF n < 0 THEN <<Ch.minus>> \o Digits(0 - n) ELSE Digits(n)

\* bencode.Encode of an integer, a string, and a dictionary given as a
\* sequence of <<key, encoded value>> pairs already in key order.
EncInt(n) == <<Ch.i>> \o Itoa(n) \o <<Ch.e>>
EncStr(s) == Itoa(Len(s)) \o <<Ch.colon>> \o s
RECURSIVE EncPairs(_)
EncPairs(kvs) == IF kvs = <<>> THEN <<>>
                 ELSE EncStr(kvs[1][1]) \o kvs[1][2] \o EncPairs(Tail(kvs))
EncDict(kvs) == <<Ch.d>> \o EncPairs(kvs) \o <<Ch.e>>

\* Decoded values are tagged: [t |-> "int", n], [t |-> "str", s],
\* [t |-> "list", l], [t |-> "dict", d] with d a function from keys to values.
\* A parse result is [ok, v, next]: next is the 0-based offset after the value.
ParseFail == [ok |-> FALSE, v |-> 0, next |-> 0]

IsDigit(b) == b \in Ch.zero..(Ch.zero + 9)
RECURSIVE AtoiAcc(_, _)
AtoiAcc(s, acc) == IF s = <<>> THEN acc ELSE AtoiAcc(Tail(s), acc * 10 + (Head(s) - Ch.zero))

\* strconv.ParseInt(str, 10, 64): optional sign, then at least one digit.
ParseInt(str) ==
  LET signed == str # <<>> /\ Head(str) \in {Ch.minus, Ch.plus}
      ds == IF signed THEN Tail(str) ELSE str
  IN IF ds = <<>> \/ \E k \in 1..Len(ds) : ~IsDigit(ds[k])
     THEN [ok |-> FALSE, n |-> 0]
     ELSE [ok |-> TRUE,
           n |-> IF signed /\ Head(str) = Ch.minus THEN 0 - AtoiAcc(ds, 0) ELSE AtoiAcc(ds, 0)]

\* decoder.readIntUntil: the bytes from offset p up to the first `until`
\* (at offset q) are parsed as an integer.
IntResult(r, next) == IF r.ok THEN [ok |-> TRUE, v |-> r.n, next |-> next] ELSE ParseFail
readIntEnd(s, p, q) ==
  IF q = -1 THEN ParseFail ELSE IntResult(ParseInt(SubSeq(s, p + 1, q)), q + 1)
readIntUntil(s, p, until) == readIntEnd(s, p, IndexFrom(s, <<until>>, p))

\* decoder.readString: <length>:<bytes>; n is the parsed length.
readStringBody(s, n) ==
  IF ~n.ok THEN ParseFail
  ELSE IF n.v < 0 \/ n.next + n.v > Len(s) THEN ParseFail
  ELSE [ok |-> TRUE, v |-> SubSeq(s, n.next + 1, n.next + n.v), next |-> n.next + n.v]
readString(s, p) == readStringBody(s, readIntUntil(s, p, Ch.colon))

TagInt(r) ==
  IF r.ok THEN [ok |-> TRUE, v |-> [t |-> "int", n |-> r.v], next |-> r.next] ELSE ParseFail
TagStr(r) ==
  IF r.ok THEN [ok |-> TRUE, v |-> [t |-> "str", s |-> r.v], next |-> r.next] ELSE ParseFail

RECURSIVE readInterfaceType(_, _)
RECURSIVE readList(_, _, _)
RECURSIVE readDictionary(_, _, _)

\* decoder.readList, after one item r was read.
readListItem(s, acc, r) ==
  IF r.ok THEN readList(s, r.next, Append(acc, r.v)) ELSE ParseFail

\* decoder.readDictionary, after key and value r were read: 'e' ends the
\* dictionary, anything else starts the next key.
readDictNext(s, acc, key, r) ==
  IF ~r.ok THEN ParseFail
  ELSE IF r.next >= Len(s) THEN ParseFail
  ELSE IF s[r.next + 1] = Ch.e
    THEN [ok |-> TRUE, v |-> [t |-> "dict", d |-> (key :> r.v) @@ acc], next |-> r.next + 1]
  ELSE readDictionary(s, r.next, (key :> r.v) @@ acc)
\* decoder.readDictionary, after the key k was read.
readDictValue(s, acc, k) ==
  IF ~k.ok THEN ParseFail ELSE readDictNext(s, acc, k.v, readInterfaceType(s, k.next))

\* decoder.readInterfaceType: dispatch on the first byte of the value.
readInterfaceType(s, p) ==
  IF p >= Len(s) THEN ParseFail
  ELSE IF s[p + 1] = Ch.i THEN TagInt(readIntUntil(s, p + 1, Ch.e))
  ELSE IF s[p + 1] = Ch.l THEN readList(s, p + 1, <<>>)
  ELSE IF s[p + 1] = Ch.d THEN readDictionary(s, p + 1, <<>>)
  ELSE TagStr(readString(s, p))

\* decoder.readList: items until 'e'.
readList(s, p, acc) ==
  IF p >= Len(s) THEN ParseFail
  ELSE IF s[p + 1] = Ch.e THEN [ok |-> TRUE, v |-> [t |-> "list", l |-> acc], next |-> p + 1]
  ELSE readListItem(s, acc, readInterfaceType(s, p))

\* decoder.readDictionary: key, value, then 'e' ends the dictionary.  The
\* key is read before the end marker is looked for, so "de" is an error.
readDictionary(s, p, acc) == readDictValue(s, acc, readString(s, p))

\* bencode.Decode: empty input is an empty dictionary, anything not
\* starting with 'd' is an error; bytes after the dictionary are ignored.
DictResult(r) == IF r.ok THEN [ok |-> TRUE, dict |-> r.v.d] ELSE [ok |-> FALSE, dict |-> <<>>]
Decode(s) ==
  IF s = <<>> THEN [ok |-> TRUE, dict |-> <<>>]
  ELSE IF s[1] # Ch.d THEN [ok |-> FALSE, dict |-> <<>>]
  ELSE DictResult(readDictionary(s, 1, <<>>))

\* dict[key].(int64) and dict[key].(map[string]interface{}): the ok flag.
IsInt64(dict, key) == key \in DOMAIN dict /\ dict[key].t = "int"
IsMap(dict, key) == key \in DOMAIN dict /\ dict[key].t = "dict"

\* ---------------------------------------------------------------- program
perBlock == 16384
maxMetadataSize == perBlock * 1024
extended == 20
extHandshake == 0

\* Largest piece count whose request/response phase is explored; a session
\* whose peer announces more pieces is followed up to the call of Begin.
MaxPieces == 3

\* crypto/sha1 stands behind a 20-byte digest that is a function of the
\* bytes alone (a toy mixing function: the model needs no more of SHA-1
\* than that equal inputs give equal digests and the digest has 20 bytes).
RECURSIVE Mix(_, _)
Mix(b, h) == IF b = <<>> THEN h ELSE Mix(Tail(b), (h * 33 + Head(b) + 1) % 65521)
Sha1(b) == [k \in 1..20 |-> ((Mix(b, 5381) \div k) + k) % 256]

\* MakePreHeader: 0x13, "BitTorrent protocol", 8 reserved bytes with the
\* extension bit 0x10 set in byte 5.
MakePreHeader ==
  <<19>> \o <<66, 105, 116, 84, 111, 114, 114, 101, 110, 116, 32,
              112, 114, 111, 116, 111, 99, 111, 108>>
         \o <<0, 0, 0, 0, 0, 16, 0, 0>>

\* The local peer id handed to NewMeta: 20 bytes.
PeerId == [k \in 1..20 |-> 45]

\* binary.BigEndian.PutUint32 / Uint32 on the 4 length bytes.
PutUint32(n) == <<(n \div 16777216) % 256, (n \div 65536) % 256, (n \div 256) % 256, n % 256>>
\* What WriteTo hands to conn.Write: the length prefix and the payload.
WriteToBytes(payload) == PutUint32(Len(payload)) \o payload

\* ------------------------------------------------------------- the peer
\* Bytes of metadata piece idx as an honest peer holds them, and the second
\* payload a peer may send for indexes 0 and 1 (empty, "ee"); for the other
\* indexes it sends the honest bytes only.
PieceData(idx) == <<65 + idx>>
AltData(idx) == IF idx = 0 THEN <<>> ELSE IF idx = 1 THEN <<Ch.e, Ch.e>> ELSE PieceData(idx)
Metadata(n) == [k \in 1..n |-> 65 + (k - 1)]

\* The info hashes NewMeta is given: the digest of an n-piece metadata.
InfoHashes == {Sha1(Metadata(n)) : n \in {0, 1, MaxPieces}}

\* The 68-byte replies to the base handshake a peer may send.
HandshakeReply(okProto, reserved5, hash) ==
  (IF okProto THEN SubSeq(MakePreHeader, 1, 20) ELSE <<19>> \o [k \in 1..19 |-> 88])
  \o <<0, 0, 0, 0, 0, reserved5, 0, 0>> \o hash \o [k \in 1..20 |-> 80]
HandshakeReplies(hash) ==
  {HandshakeReply(p, r, h) : p \in BOOLEAN, r \in {16, 17, 1}, h \in {hash, Sha1(<<0>>)}}

\* A ut_metadata message of the peer: 20, sub-id, dictionary, raw bytes.
PieceFrame(sub, msgType, idx, d) ==
  <<extended, sub>> \o EncDict(<<<<KeyMsgType, EncInt(msgType)>>, <<KeyPiece, EncInt(idx)>>>>) \o d
PieceFrameTotal(idx, total, d) ==
  <<extended, 1>>
  \o EncDict(<<<<KeyMsgType, EncInt(1)>>, <<KeyPiece, EncInt(idx)>>, <<KeyTotalSize, EncInt(total)>>>>)
  \o d

\* The peer's extension handshake: {"m": {"ut_metadata": ut}, "metadata_size": size}.
ExtReply(ut, size) ==
  <<extended, extHandshake>>
  \o EncDict(<<<<KeyM, EncDict(<<<<KeyUtMetadata, EncInt(ut)>>>>)>>,
               <<KeyMetadataSize, EncInt(size)>>>>)

\* metadata_size values a peer may announce, and its ut_metadata ids.
MetadataSizes ==
  {-1, 0, 1, maxMetadataSize, maxMetadataSize + 1}
  \cup {n * perBlock : n \in 1..(MaxPieces - 1)}
  \cup {(MaxPieces - 1) * perBlock + 100}
UtIds == {1, 256, -1}

\* Extension handshake replies with a field missing or of the wrong type:
\* no metadata_size; metadata_size a string; no m; m an integer; no
\* ut_metadata in m; ut_metadata a string; no dictionary at all.
MalformedExtReplies ==
  { <<extended, extHandshake>> \o EncDict(<<<<KeyM, EncDict(<<<<KeyUtMetadata, EncInt(1)>>>>)>>>>),
    <<extended, extHandshake>>
      \o EncDict(<<<<KeyM, EncDict(<<<<KeyUtMetadata, EncInt(1)>>>>)>>,
                   <<KeyMetadataSize, EncStr(<<49>>)>>>>),
    <<extended, extHandshake>> \o EncDict(<<<<KeyMetadataSize, EncInt(1)>>>>),
    <<extended, extHandshake>>
      \o EncDict(<<<<KeyM, EncInt(1)>>, <<KeyMetadataSize, EncInt(1)>>>>),
    <<extended, extHandshake>>
      \o EncDict(<<<<KeyM, EncDict(<<<<KeyPiece, EncInt(1)>>>>)>>,
                   <<KeyMetadataSize, EncInt(1)>>>>),
    <<extended, extHandshake>>
      \o EncDict(<<<<KeyM, EncDict(<<<<KeyUtMetadata, EncStr(<<49>>)>>>>)>>,
                   <<KeyMetadataSize, EncInt(1)>>>>),
    <<extended, extHandshake>>,
    <<extended, extHandshake>> \o <<Ch.e, Ch.e>> }

\* Frames a peer may send where the extension handshake reply is awaited.
ExtFrames ==
  {ExtReply(1, size) : size \in MetadataSizes}
  \cup {ExtReply(ut, perBlock) : ut \in UtIds}
  \cup MalformedExtReplies
  \cup { <<>>, <<extended>>, <<5, 0>>, <<extended, 1>> }

\* Frames a peer may send while Begin collects pieces.
DataFrames ==
  UNION {{PieceFrame(1, 1, idx, d) : d \in {PieceData(idx), AltData(idx)}} :
           idx \in 0..(MaxPieces - 1)}
PeerFrames ==
  DataFrames
  \cup {PieceFrame(1, 1, idx, PieceData(0)) : idx \in {-1, MaxPieces}}
  \cup {PieceFrame(1, mt, idx, PieceData(0)) : mt \in {0, 2}, idx \in {0, -1}}
  \cup {PieceFrameTotal(0, perBlock, PieceData(0))}
  \cup { <<>>, <<extended>>, <<5>>, ExtReply(1, 0), PieceFrame(2, 1, 0, PieceData(0)),
         <<7, 1>> \o PieceData(0),
         \* matching frames without a usable dictionary: no "ee"; "ee" alone;
         \* no piece key; piece a string
         <<extended, 1>> \o PieceData(0),
         <<extended, 1, Ch.e, Ch.e>>,
         <<extended, 1>> \o EncDict(<<<<KeyMsgType, EncInt(1)>>>>) \o PieceData(0),
         <<extended, 1>> \o EncDict(<<<<KeyMsgType, EncInt(1)>>, <<KeyPiece, EncStr(<<48>>)>>>>)
                         \o <<Ch.e>> }

\* Errors io.ReadFull reports when the stream ends or the deadline passes.
ReadErrors == {"EOF", "unexpected EOF", "i/o timeout"}

\* How many bytes of the wire bytes w of a frame reach the reader before the
\* peer closes: none, part of the length, the length alone, all but the last
\* byte, or (Len(w)) the whole frame.
Cuts(w) == {n \in {0, 3, 4, Len(w) - 1, Len(w)} : n >= 0}

\* ------------------------------------------------------ pure translations
NoErr == ""

\* binary.BigEndian.Uint32 on the 4 length bytes.
Uint32(b) == b[1] * 16777216 + b[2] * 65536 + b[3] * 256 + b[4]
\* io.ReadFull's error when the stream ends with got of the wanted bytes read.
ShortRead(got) == IF got = 0 THEN "EOF" ELSE "unexpected EOF"
ReadErr(e) == [err |-> e, data |-> <<>>]

\* Mutant of ReadNSized: the payload bytes that did arrive are returned.
ReadNSizedPartial(stream, size) ==
  [err |-> NoErr, data |-> SubSeq(stream, 5, Len(stream))]

\* Meta.ReadN once the 4 length bytes are read: io.ReadFull of size bytes.
ReadNSized(stream, size) ==
  IF Len(stream) - 4 < size THEN ReadErr(ShortRead(Len(stream) - 4))
  ELSE [err |-> NoErr, data |-> SubSeq(stream, 5, 4 + size)]

\* Meta.ReadN on a connection that holds the bytes of stream and is then
\* closed by the peer.
ReadN(stream) ==
  IF Len(stream) < 4 THEN ReadErr(ShortRead(Len(stream)))
  ELSE ReadNSized(stream, Uint32(stream))

\* Mutant of BeginFilter: the second byte of the frame is not looked at.
BeginFilterAnySub(f) ==
  IF Len(f) = 0 THEN "panic"
  ELSE IF f[1] # extended THEN "skip"
  ELSE IF Len(f) = 1 THEN "panic"
  ELSE "piece"

\* Begin's tests of the two id bytes of a frame: its first byte must be the
\* extended message id and its second byte 1; both are read unchecked.
BeginFilter(f) ==
  IF Len(f) = 0 THEN "panic"
  ELSE IF f[1] # extended THEN "skip"
  ELSE IF Len(f) = 1 THEN "panic"
  ELSE IF f[2] # 1 THEN "skip"
  ELSE "piece"

\* Mutant of checkDone: done as soon as some slot is filled.
checkDoneAny(ps) == \E k \in 1..Len(ps) : ~ps[k].nil

\* Meta.checkDone: no slot of the piece table is nil.
checkDone(ps) == \A k \in 1..Len(ps) : ~ps[k].nil

RECURSIVE Concat(_)
Concat(ps) == IF ps = <<>> THEN <<>> ELSE ps[1].b \o Concat(Tail(ps))
\* bytes.Join(pieces, ""): an empty table joins to an empty non-nil slice, a
\* single element is appended to a nil slice, more are copied into a new one.
Join(ps) ==
  IF Len(ps) = 0 THEN Slice(<<>>)
  ELSE IF Len(ps) = 1 THEN (IF ps[1].b = <<>> THEN NilSlice ELSE Slice(ps[1].b))
  ELSE Slice(Concat(ps))

\* The slot of the piece table that piece index idx names (0-based in Go).
SlotOf(idx) == idx + 1

\* A result of readOnePiece: an error, a panic (index out of range) or the
\* piece table with one slot set (old is what that slot held before).
PieceErr(e, ps) == [st |-> "err", err |-> e, pieces |-> ps, old |-> NilSlice]

\* First nil slot of the table at or after k (the last slot when none is nil).
RECURSIVE FirstFree(_, _)
FirstFree(ps, k) == IF k >= Len(ps) \/ ps[k].nil THEN k ELSE FirstFree(ps, k + 1)

\* Mutant of storePiece: pieces are kept in arrival order, not by index.
storePieceArrival(payload, trailerIndex, r, count, ps) ==
  IF ~r.ok THEN PieceErr("bencode: decode error", ps)
  ELSE IF ~IsInt64(r.dict, KeyPiece) \/ r.dict[KeyPiece].n >= count
    THEN PieceErr("piece num error", ps)
  ELSE IF ~IsInt64(r.dict, KeyMsgType) \/ r.dict[KeyMsgType].n # 1
    THEN PieceErr("piece type error", ps)
  ELSE IF r.dict[KeyPiece].n < 0
    THEN [st |-> "panic", err |-> "index out of range", pieces |-> ps, old |-> NilSlice]
  ELSE [st |-> "ok", err |-> NoErr, old |-> ps[FirstFree(ps, 1)],
        pieces |-> [ps EXCEPT ![FirstFree(ps, 1)] = Slice(SliceFrom(payload, trailerIndex))]]

\* Mutant of storePiece: a slot that is already filled keeps its bytes.
storePieceFirstWins(payload, trailerIndex, r, count, ps) ==
  IF ~r.ok THEN PieceErr("bencode: decode error", ps)
  ELSE IF ~IsInt64(r.dict, KeyPiece) \/ r.dict[KeyPiece].n >= count
    THEN PieceErr("piece num error", ps)
  ELSE IF ~IsInt64(r.dict, KeyMsgType) \/ r.dict[KeyMsgType].n # 1
    THEN PieceErr("piece type error", ps)
  ELSE IF r.dict[KeyPiece].n < 0
    THEN [st |-> "panic", err |-> "index out of range", pieces |-> ps, old |-> NilSlice]
  ELSE [st |-> "ok", err |-> NoErr, old |-> ps[SlotOf(r.dict[KeyPiece].n)],
        pieces |-> IF ps[SlotOf(r.dict[KeyPiece].n)].nil
                   THEN [ps EXCEPT ![SlotOf(r.dict[KeyPiece].n)] =
                           Slice(SliceFrom(payload, trailerIndex))]
                   ELSE ps]

\* Mutant of storePiece: the message type is not looked at.
storePieceAnyType(payload, trailerIndex, r, count, ps) ==
  IF ~r.ok THEN PieceErr("bencode: decode error", ps)
  ELSE IF ~IsInt64(r.dict, KeyPiece) \/ r.dict[KeyPiece].n >= count
    THEN PieceErr("piece num error", ps)
  ELSE IF r.dict[KeyPiece].n < 0
    THEN [st |-> "panic", err |-> "index out of range", pieces |-> ps, old |-> NilSlice]
  ELSE [st |-> "ok", err |-> NoErr, old |-> ps[SlotOf(r.dict[KeyPiece].n)],
        pieces |-> [ps EXCEPT ![SlotOf(r.dict[KeyPiece].n)] =
                      Slice(SliceFrom(payload, trailerIndex))]]

\* Meta.readOnePiece from the decoded dictionary r on: the checks of the
\* piece index and the message type, then the store of payload[trailerIndex:].
storePiece(payload, trailerIndex, r, count, ps) ==
  IF ~r.ok THEN PieceErr("bencode: decode error", ps)
  ELSE IF ~IsInt64(r.dict, KeyPiece) \/ r.dict[KeyPiece].n >= count
    THEN PieceErr("piece num error", ps)
  ELSE IF ~IsInt64(r.dict, KeyMsgType) \/ r.dict[KeyMsgType].n # 1
    THEN PieceErr("piece type error", ps)
  ELSE IF r.dict[KeyPiece].n < 0
    THEN [st |-> "panic", err |-> "index out of range", pieces |-> ps, old |-> NilSlice]
  ELSE [st |-> "ok", err |-> NoErr, old |-> ps[SlotOf(r.dict[KeyPiece].n)],
        pieces |-> [ps EXCEPT ![SlotOf(r.dict[KeyPiece].n)] =
                      Slice(SliceFrom(payload, trailerIndex))]]

\* Meta.readOnePiece from the "ee" scan on.
readOnePieceAt(payload, trailerIndex, count, ps) ==
  IF trailerIndex = 1 THEN PieceErr("ee == 1", ps)
  ELSE storePiece(payload, trailerIndex, Decode(SliceTo(payload, trailerIndex)), count, ps)

\* 0-based position of the last occurrence of sep in s at or before p, -1 if none.
RECURSIVE LastIndexFrom(_, _, _)
LastIndexFrom(s, sep, p) ==
  IF p < 0 THEN -1
  ELSE IF SubSeq(s, p + 1, p + Len(sep)) = sep THEN p
  ELSE LastIndexFrom(s, sep, p - 1)
\* Mutant of readOnePiece: the dictionary is taken to end at the last "ee".
readOnePieceLastMarker(payload, count, ps) ==
  readOnePieceAt(payload, LastIndexFrom(payload, <<Ch.e, Ch.e>>, Len(payload) - 2) + 2, count, ps)

\* Meta.readOnePiece on the bytes after the two id bytes.
readOnePiece(payload, count, ps) ==
  readOnePieceAt(payload, Index(payload, <<Ch.e, Ch.e>>) + 2, count, ps)

\* Mutant of HandShakeCheck: the info hash is compared first.
HandShakeCheckHashFirst(res, preHeader, hash) ==
  IF SubSeq(res, 29, 48) # hash
    THEN "invalid bittorrent header response"
  ELSE IF SubSeq(res, 1, 20) # SubSeq(preHeader, 1, 20)
    THEN "remote peer not supporting bittorrent protocol"
  ELSE IF (res[26] \div 16) % 2 # 1
    THEN "remote peer not supporting extension protocol"
  ELSE NoErr

\* The three checks of Meta.HandShake on the 68 bytes read, in code order.
HandShakeCheck(res, preHeader, hash) ==
  IF SubSeq(res, 1, 20) # SubSeq(preHeader, 1, 20)
    THEN "remote peer not supporting bittorrent protocol"
  ELSE IF (res[26] \div 16) % 2 # 1
    THEN "remote peer not supporting extension protocol"
  ELSE IF SubSeq(res, 29, 48) # hash
    THEN "invalid bittorrent header response"
  ELSE NoErr

\* Mutant of PieceCountOf: the last, shorter piece is not counted.
PieceCountOfFloor(size) == size \div perBlock

\* The piece count Meta.onExtHandshake derives from metadata_size.
PieceCountOf(size) == (size \div perBlock) + (IF size % perBlock # 0 THEN 1 ELSE 0)

\* The result of Meta.onExtHandshake: the error, or the four fields it assigns.
ExtErr(e) == [err |-> e, metadataSize |-> 0, utMetadata |-> 0, pieceCount |-> 0, pieces |-> <<>>]
ExtFields(size, ut) ==
  [err |-> NoErr, metadataSize |-> size, utMetadata |-> ut, pieceCount |-> PieceCountOf(size),
   pieces |-> [k \in 1..PieceCountOf(size) |-> NilSlice]]
\* Mutant of onExtHandshakeDict: a negative metadata_size is let through.
onExtHandshakeDictNoNegative(r) ==
  IF ~r.ok THEN ExtErr("bencode: decode error")
  ELSE IF ~IsInt64(r.dict, KeyMetadataSize) THEN ExtErr("invalid extension header response")
  ELSE IF r.dict[KeyMetadataSize].n > maxMetadataSize THEN ExtErr("metadata_size too long")
  ELSE IF ~IsMap(r.dict, KeyM) THEN ExtErr("negative metadata m")
  ELSE IF ~IsInt64(r.dict[KeyM].d, KeyUtMetadata) THEN ExtErr("negative metadata ut_metadata")
  ELSE ExtFields(r.dict[KeyMetadataSize].n, r.dict[KeyM].d[KeyUtMetadata].n)

\* Meta.onExtHandshake from the decoded dictionary r on.
onExtHandshakeDict(r) ==
  IF ~r.ok THEN ExtErr("bencode: decode error")
  ELSE IF ~IsInt64(r.dict, KeyMetadataSize) THEN ExtErr("invalid extension header response")
  ELSE IF r.dict[KeyMetadataSize].n > maxMetadataSize THEN ExtErr("metadata_size too long")
  ELSE IF r.dict[KeyMetadataSize].n < 0 THEN ExtErr("negative metadata_size")
  ELSE IF ~IsMap(r.dict, KeyM) THEN ExtErr("negative metadata m")
  ELSE IF ~IsInt64(r.dict[KeyM].d, KeyUtMetadata) THEN ExtErr("negative metadata ut_metadata")
  ELSE ExtFields(r.dict[KeyMetadataSize].n, r.dict[KeyM].d[KeyUtMetadata].n)
\* Meta.onExtHandshake.
onExtHandshake(payload) == onExtHandshakeDict(Decode(payload))

\* Mutant of requestPiece: every request names piece 0.
requestPieceFirst(ut, k) ==
  <<extended, ut % 256>> \o EncDict(<<<<KeyMsgType, EncInt(0)>>, <<KeyPiece, EncInt(0)>>>>)

\* The payload Meta.requestPiece builds for index k: byte(utMetadata) keeps
\* the low 8 bits of the id.
requestPiece(ut, k) ==
  <<extended, ut % 256>> \o EncDict(<<<<KeyMsgType, EncInt(0)>>, <<KeyPiece, EncInt(k)>>>>)

\* The bytes Meta.HandShake writes: pre-header, info hash, peer id.
HandShakeBytes(hash) == MakePreHeader \o hash \o PeerId

\* The value Meta.extHandShake builds and hands to bencode.Encode: the two
\* id bytes followed by the encoded dictionary {"m": {"ut_metadata": 1}}.
extHandShakeData ==
  <<extended, extHandshake>> \o EncDict(<<<<KeyM, EncDict(<<<<KeyUtMetadata, EncInt(1)>>>>)>>>>)

\* ------------------------------------------------------------------ state
VARIABLES
  pc,            \* where Meta.Start stands
  conn,          \* m.conn: "nil", "open" or "closed"
  deadline,      \* seconds of the last SetDeadLine, 0 before the first
  infoHash,      \* m.infoHash
  metadataSize,  \* m.metadataSize
  utMetadata,    \* m.utMetadata
  pieceCount,    \* m.pieceCount
  pieces,        \* m.pieces: slot k+1 holds piece index k
  i,             \* the loop index of the request loop of Begin
  data,          \* the bytes the last read returned (res of HandShake, data of ReadN)
  replaced,      \* history: what the slot written by the last store held before
  sent,          \* every byte string handed to conn.Write, in order
  wfail,         \* some conn.Write has returned an error
  truncated,     \* history: the peer closed the stream inside the frame last read
  expired,       \* the deadline of Begin's SetDeadLine(30) has passed
  ret,           \* the bytes Begin returned
  err            \* the error Connect or Begin returned

vars == <<pc, conn, deadline, infoHash, metadataSize, utMetadata, pieceCount, pieces,
          i, data, replaced, sent, wfail, truncated, expired, ret, err>>

\* NewMeta: every field but the info hash, peer id and pre-header is zero.
Init ==
  /\ pc = "Idle"
  /\ conn = "nil"
  /\ deadline = 0
  /\ infoHash \in InfoHashes
  /\ metadataSize = 0
  /\ utMetadata = 0
  /\ pieceCount = 0
  /\ pieces = <<>>
  /\ i = 0
  /\ data = <<>>
  /\ replaced = NilSlice
  /\ sent = <<>>
  /\ wfail = FALSE
  /\ truncated = FALSE
  /\ expired = FALSE
  /\ ret = NilSlice
  /\ err = NoErr

\* Start returns after an error of Connect or Begin: the deferred Close runs.
Fail(e) ==
  /\ pc' = "Failed"
  /\ err' = e
  /\ conn' = "closed"

\* A panic below Start after the defer statement: the deferred Close runs
\* while the panic unwinds, then the program dies.
Panic(e) ==
  /\ pc' = "Crashed"
  /\ err' = e
  /\ conn' = "closed"

\* Start, Connect: net.DialTimeout.  On failure Connect returns the error
\* with m.conn nil, and Start's `defer m.conn.Close()` dereferences it.
Dial ==
  /\ pc = "Idle"
  /\ \E ok \in BOOLEAN :
       IF ok
       THEN /\ conn' = "open"
            /\ deadline' = 5
            /\ pc' = "HandShake"
            /\ err' = err
       ELSE /\ conn' = "nil"
            /\ deadline' = deadline
            /\ pc' = "Crashed"
            /\ err' = "dial tcp"
  /\ UNCHANGED <<infoHash, metadataSize, utMetadata, pieceCount, pieces, i, data, replaced,
                 sent, wfail, truncated, expired, ret>>

\* HandShake, the write: its error is overwritten by the read that follows.
HandShakeWrite ==
  /\ pc = "HandShake"
  /\ sent' = Append(sent, HandShakeBytes(infoHash))
  /\ \E ok \in BOOLEAN : wfail' = (wfail \/ ~ok)
  /\ pc' = "HandShakeRead"
  /\ UNCHANGED <<conn, deadline, infoHash, metadataSize, utMetadata, pieceCount, pieces,
                 i, data, replaced, truncated, expired, ret, err>>

\* HandShake, io.ReadFull of 68 bytes and the checks; Connect goes on to
\* extHandShake when they pass.
HandShakeRead ==
  /\ pc = "HandShakeRead"
  /\ \/ /\ \E e \in ReadErrors : Fail(e)
        /\ data' = data
     \/ \E res \in HandshakeReplies(infoHash) :
          /\ data' = res
          /\ IF HandShakeCheck(res, MakePreHeader, infoHash) # NoErr
             THEN Fail(HandShakeCheck(res, MakePreHeader, infoHash))
             ELSE pc' = "ExtWrite" /\ UNCHANGED <<conn, err>>
  /\ UNCHANGED <<deadline, infoHash, metadataSize, utMetadata, pieceCount, pieces, i,
                 replaced, sent, wfail, truncated, expired, ret>>

\* extHandShake, the write.  data is a []byte handed to bencode.Encode: the
\* library either encodes it as a byte string or panics on the type.
ExtWrite ==
  /\ pc = "ExtWrite"
  /\ \/ /\ Panic("bencode: can't encode type")
        /\ UNCHANGED <<sent, wfail>>
     \/ /\ sent' = Append(sent, WriteToBytes(EncStr(extHandShakeData)))
        /\ \E ok \in BOOLEAN :
             IF ok THEN pc' = "ExtRead" /\ UNCHANGED <<conn, err, wfail>>
             ELSE Fail("write message failed") /\ wfail' = TRUE
  /\ UNCHANGED <<deadline, infoHash, metadataSize, utMetadata, pieceCount, pieces, i, data,
                 replaced, truncated, expired, ret>>

\* extHandShake from the result r of onExtHandshake on.
extHandShakeParsed(r) ==
  IF r.err # NoErr
  THEN Fail(r.err) /\ UNCHANGED <<metadataSize, utMetadata, pieceCount, pieces>>
  ELSE /\ metadataSize' = r.metadataSize
       /\ utMetadata' = r.utMetadata
       /\ pieceCount' = r.pieceCount
       /\ pieces' = r.pieces
       /\ pc' = "Begin"
       /\ UNCHANGED <<conn, err>>

\* extHandShake after ReadN returned r: data[0] and data[1] are read without
\* a length check; onExtHandshake sets the extension parameters.  On success
\* Connect returns nil and Start calls Begin.
extHandShakeOnRead(r) ==
  IF r.err # NoErr THEN
    Fail(r.err) /\ UNCHANGED <<data, metadataSize, utMetadata, pieceCount, pieces>>
  ELSE
    /\ data' = r.data
    /\ IF Len(r.data) = 0 THEN
         Panic("index out of range") /\ UNCHANGED <<metadataSize, utMetadata, pieceCount, pieces>>
       ELSE IF r.data[1] # extended THEN
         Fail("data 0 err") /\ UNCHANGED <<metadataSize, utMetadata, pieceCount, pieces>>
       ELSE IF Len(r.data) = 1 THEN
         Panic("index out of range") /\ UNCHANGED <<metadataSize, utMetadata, pieceCount, pieces>>
       ELSE IF r.data[2] # 0 THEN
         Fail("data 1 err") /\ UNCHANGED <<metadataSize, utMetadata, pieceCount, pieces>>
       ELSE extHandShakeParsed(onExtHandshake(SliceFrom(r.data, 2)))

\* extHandShake, the read: the deadline passes, or the peer sends a frame
\* and may close the stream inside it.
ExtRead ==
  /\ pc = "ExtRead"
  /\ \/ /\ Fail("i/o timeout")
        /\ UNCHANGED <<data, metadataSize, utMetadata, pieceCount, pieces, truncated>>
     \/ \E f \in ExtFrames : \E n \in Cuts(WriteToBytes(f)) :
          /\ truncated' = (n < Len(WriteToBytes(f)))
          /\ extHandShakeOnRead(ReadN(SubSeq(WriteToBytes(f), 1, n)))
  /\ UNCHANGED <<deadline, infoHash, i, replaced, sent, wfail, expired, ret>>

\* Begin: SetDeadLine(30), then the request loop starts at index 0.
BeginStart ==
  /\ pc = "Begin"
  /\ pieceCount <= MaxPieces
  /\ deadline' = 30
  /\ expired' = FALSE
  /\ i' = 0
  /\ pc' = IF 0 < pieceCount THEN "Request" ELSE "Read"
  /\ UNCHANGED <<conn, infoHash, metadataSize, utMetadata, pieceCount, pieces, data,
                 replaced, sent, wfail, truncated, ret, err>>

\* Begin, one turn of the request loop: requestPiece(i) drops WriteTo's error.
RequestPiece ==
  /\ pc = "Request"
  /\ i < pieceCount
  /\ sent' = Append(sent, WriteToBytes(requestPiece(utMetadata, i)))
  /\ \E ok \in BOOLEAN : wfail' = (wfail \/ ~ok)
  /\ i' = i + 1
  /\ pc' = IF i + 1 < pieceCount THEN "Request" ELSE "Read"
  /\ UNCHANGED <<conn, deadline, infoHash, metadataSize, utMetadata, pieceCount, pieces,
                 data, replaced, truncated, expired, ret, err>>

\* Begin after readOnePiece returned r: its panic or error ends Begin; after
\* a store checkDone decides whether to go on reading, and on completion the
\* join and the digest decide between the bytes and the checksum error.
BeginStored(r) ==
  IF r.st = "panic" THEN Panic(r.err) /\ UNCHANGED <<pieces, replaced, ret>>
  ELSE IF r.st = "err" THEN Fail(r.err) /\ UNCHANGED <<pieces, replaced, ret>>
  ELSE /\ pieces' = r.pieces
       /\ replaced' = r.old
       /\ IF ~checkDone(r.pieces) THEN UNCHANGED <<pc, err, conn, ret>>
          ELSE IF Sha1(Join(r.pieces).b) = infoHash
            THEN /\ ret' = Join(r.pieces)
                 /\ pc' = "Done"
                 /\ conn' = "closed"
                 /\ err' = err
            ELSE /\ Fail("metadata checksum mismatch")
                 /\ ret' = ret

\* Begin, one turn of the response loop after ReadN returned r: its error
\* ends Begin, a frame that fails a test of the id bytes is skipped, a short
\* frame panics, any other goes to readOnePiece.
BeginOnRead(r) ==
  IF r.err # NoErr THEN Fail(r.err) /\ UNCHANGED <<data, pieces, replaced, ret>>
  ELSE
    /\ data' = r.data
    /\ IF BeginFilter(r.data) = "panic"
         THEN Panic("index out of range") /\ UNCHANGED <<pieces, replaced, ret>>
       ELSE IF BeginFilter(r.data) = "skip"
         THEN UNCHANGED <<pc, err, conn, pieces, replaced, ret>>
       ELSE BeginStored(readOnePiece(SliceFrom(r.data, 2), pieceCount, pieces))

\* Begin, one turn of the response loop: the deadline has passed or passes
\* while ReadN blocks, or the peer sends a frame and may close the stream
\* inside it.  When Begin returns, Start returns too (after printing the
\* decoded result on success) and the deferred Close runs.
ReadFrame ==
  /\ pc = "Read"
  /\ \/ /\ Fail("i/o timeout")
        /\ UNCHANGED <<data, pieces, replaced, ret, truncated>>
     \/ /\ ~expired
        /\ \E f \in PeerFrames : \E n \in Cuts(WriteToBytes(f)) :
             /\ truncated' = (n < Len(WriteToBytes(f)))
             /\ BeginOnRead(ReadN(SubSeq(WriteToBytes(f), 1, n)))
  /\ UNCHANGED <<deadline, infoHash, metadataSize, utMetadata, pieceCount, i, sent, wfail,
                 expired>>

\* Time passes the deadline Begin set: from now on every read and write on
\* the connection fails at once with a timeout.
Expire ==
  /\ pc \in {"Request", "Read"}
  /\ ~expired
  /\ expired' = TRUE
  /\ UNCHANGED <<pc, conn, deadline, infoHash, metadataSize, utMetadata, pieceCount, pieces,
                 i, data, replaced, sent, wfail, truncated, ret, err>>

Next ==
  \/ Dial
  \/ HandShakeWrite
  \/ HandShakeRead
  \/ ExtWrite
  \/ ExtRead
  \/ BeginStart
  \/ RequestPiece
  \/ ReadFrame

Spec == Init /\ [][Next]_vars

\* The session with the clock: time passes, and a step that can be taken
\* is taken (one sequential thread, blocking calls bounded by the deadline).
NextTimed == Next \/ Expire
FairSpec == Init /\ [][NextTimed]_vars /\ WF_vars(Next) /\ WF_vars(Expire)

\* ------------------------------------------------------------- properties
ChecksumErr == "metadata checksum mismatch"
ProtoErr == "remote peer not supporting bittorrent protocol"
ExtBitErr == "remote peer not supporting extension protocol"
HashErr == "invalid bittorrent header response"

\* Every slot of a piece table is filled.
AllPresentOf(ps) == \A k \in 1..Len(ps) : ~ps[k].nil
\* The bytes of slots 1..n of a piece table, in index order.
RECURSIVE InIndexOrder(_, _)
InIndexOrder(ps, n) == IF n = 0 THEN <<>> ELSE InIndexOrder(ps, n - 1) \o ps[n].b

\* The extension handshake has succeeded (Connect returned nil).
AfterExt == pc = "Begin" \/ deadline = 30

\* C1: Begin returns non-nil bytes only when all pieceCount slots are filled
\* and the digest of their concatenation in index order is the info hash;
\* an assembly that completes with another digest ends in the checksum
\* error with nil bytes.
C1_VerifiedOrNothing ==
  /\ ~ret.nil => pc = "Done"
  /\ pc = "Done" =>
       /\ Len(pieces) = pieceCount
       /\ AllPresentOf(pieces)
       /\ ret.b = InIndexOrder(pieces, pieceCount)
       /\ Sha1(InIndexOrder(pieces, pieceCount)) = infoHash
  /\ (pieceCount >= 1 /\ AllPresentOf(pieces)
        /\ Sha1(InIndexOrder(pieces, pieceCount)) # infoHash) =>
       (pc = "Failed" /\ err = ChecksumErr /\ ret.nil)
  /\ (pc = "Failed" /\ err = ChecksumErr) =>
       (AllPresentOf(pieces) /\ Sha1(InIndexOrder(pieces, pieceCount)) # infoHash)
\* Begin has returned the verified bytes of a metadata of several pieces.
C1_Witness == pc = "Done" /\ ~ret.nil /\ pieceCount >= 2

\* C2: whatever the order of arrival, every filled slot holds bytes sent for
\* its own index, the assembly is complete exactly in the step that fills
\* the last missing slot, and the bytes returned are the slots in index order.
C2_OrderIndependent ==
  [][(pc = "Read" /\ pieceCount >= 1) =>
       /\ ~AllPresentOf(pieces)
       /\ AllPresentOf(pieces') <=> (pc' = "Done" \/ (pc' = "Failed" /\ err' = ChecksumErr))
       /\ \A k \in 1..pieceCount :
            ~pieces'[k].nil => pieces'[k].b \in {PieceData(k - 1), AltData(k - 1)}
       /\ pc' = "Done" => ret'.b = InIndexOrder(pieces', pieceCount)]_vars
\* A metadata of MaxPieces pieces was returned and index 0 arrived last.
C2_Witness ==
  /\ pc = "Done"
  /\ pieceCount = MaxPieces
  /\ data = PieceFrame(1, 1, 0, PieceData(0))
  /\ ret.b = Metadata(MaxPieces)

\* C3: while the assembly is incomplete, a data reply for an index whose slot
\* is already filled sets that slot to the reply's bytes (the same bytes:
\* nothing changes; other bytes: the later bytes win), changes no other slot,
\* raises no error and the session keeps reading.
C3_DuplicateOverwrites ==
  [][\A k \in 0..(pieceCount - 1) : \A d \in {PieceData(k), AltData(k)} :
       (pc = "Read" /\ ~pieces[k + 1].nil /\ data' = PieceFrame(1, 1, k, d)
          /\ err' \notin ReadErrors) =>
         /\ pieces' = [pieces EXCEPT ![k + 1] = Slice(d)]
         /\ replaced' = pieces[k + 1]
         /\ pc' = "Read"
         /\ err' = NoErr]_vars
\* Slot 0 held the first bytes and now holds bytes delivered later.
C3_Witness ==
  /\ pc = "Read"
  /\ replaced = Slice(PieceData(0))
  /\ pieces[1] = Slice(AltData(0))

\* C4: with metadata_size 0 the session reaches the completion check without
\* waiting for a frame of the peer.
C4_EmptyCompletesWithoutFrame == ~(pieceCount = 0 /\ pc = "Read")

\* C5: a matching piece reply whose index is negative or >= pieceCount ends
\* the session in Failed with a piece error and writes no slot.
C5_OutOfRangeIsError ==
  [][\A idx \in -1..MaxPieces : \A mt \in {0, 1, 2} :
       \A d \in {PieceData(0), PieceData(idx), AltData(idx)} :
         (pc = "Read" /\ (idx < 0 \/ idx >= pieceCount)
            /\ data' = PieceFrame(1, mt, idx, d) /\ err' \notin ReadErrors) =>
           /\ pc' = "Failed"
           /\ err' \in {"piece num error", "piece type error"}
           /\ pieces' = pieces]_vars

\* C6: a matching reply with a message type other than 1 for an index in
\* range ends Begin with the piece type error and nil bytes, writes no slot,
\* and no step follows a failure.
C6_RejectIsError ==
  [][/\ pc # "Failed"
     /\ \A idx \in 0..(pieceCount - 1) : \A mt \in {0, 2} :
          (pc = "Read" /\ data' = PieceFrame(1, mt, idx, PieceData(0))
             /\ err' \notin ReadErrors) =>
            /\ pc' = "Failed"
            /\ err' = "piece type error"
            /\ ret'.nil
            /\ pieces' = pieces]_vars
\* A reject for index 0 ended a session that had already stored a piece.
C6_Witness ==
  /\ pc = "Failed"
  /\ err = "piece type error"
  /\ data = PieceFrame(1, 2, 0, PieceData(0))
  /\ \E k \in 1..Len(pieces) : ~pieces[k].nil

\* C7: every failure, a failed dial included, ends the session in Failed
\* with the connection not left open, and never in a crash.
C7_FailureEndsFailed ==
  /\ pc # "Crashed"
  /\ err # NoErr => (pc = "Failed" /\ conn # "open")

\* C8: the 68-byte reply is checked in the order protocol prefix, extension
\* bit, info hash; the error is that of the first check that fails, the
\* three errors differ, and the handshake passes only when all three pass.
C8_HandshakeOrder ==
  /\ ProtoErr # ExtBitErr /\ ExtBitErr # HashErr /\ ProtoErr # HashErr
  /\ \A p \in BOOLEAN : \A r \in {16, 17, 1} : \A h \in {infoHash, Sha1(<<0>>)} :
       (data = HandshakeReply(p, r, h) /\ pc \in {"ExtWrite", "Failed"}
          /\ Len(sent) = 1 /\ err \notin ReadErrors) =>
         IF ~p THEN pc = "Failed" /\ err = ProtoErr
         ELSE IF r = 1 THEN pc = "Failed" /\ err = ExtBitErr
         ELSE IF h # infoHash THEN pc = "Failed" /\ err = HashErr
         ELSE pc = "ExtWrite" /\ err = NoErr
\* A reply failing all three checks was answered with the protocol error.
C8_Witness ==
  /\ pc = "Failed"
  /\ err = ProtoErr
  /\ data = HandshakeReply(FALSE, 1, Sha1(<<0>>))

\* Extension handshake replies the session must refuse.
BadExtReplies ==
  {ExtReply(ut, size) : ut \in UtIds, size \in {-1, maxMetadataSize + 1}}
  \cup MalformedExtReplies
\* w is a written piece request frame: length prefix, 20, sub-id, and a
\* dictionary with a msg_type key.
IsPieceRequest(w) == Len(w) > 5 /\ w[5] = extended /\ Index(w, KeyMsgType) # -1
NoPieceRequest == \A k \in 1..Len(sent) : ~IsPieceRequest(sent[k])

\* C9: a piece request is on the wire only after both handshakes (sent holds
\* the two handshake writes first and Begin has started); a reply with a
\* negative, too large, missing or malformed field fails the session with
\* the extension parameters and the piece table unset and no request sent.
C9_NoRequestBeforeHandshakes ==
  /\ ~NoPieceRequest =>
       /\ AfterExt
       /\ Len(sent) >= 3
       /\ sent[1] = HandShakeBytes(infoHash)
       /\ ~IsPieceRequest(sent[2])
       /\ metadataSize \in 1..maxMetadataSize
  /\ ~AfterExt =>
       /\ NoPieceRequest
       /\ metadataSize = 0 /\ utMetadata = 0 /\ pieceCount = 0 /\ pieces = <<>>
  /\ data \in BadExtReplies => (pc = "Failed" /\ ~AfterExt /\ err \notin ReadErrors)
\* The reply metadata_size = -1 failed the session before any request.
C9_Witness ==
  /\ pc = "Failed"
  /\ data = ExtReply(1, -1)
  /\ err = "negative metadata_size"
  /\ Len(sent) = 2

\* C10: once the extension handshake has succeeded, metadataSize is in
\* 0..16777216, pieceCount is its quotient by 16384 rounded up (at most
\* 1024), the table has pieceCount slots, all nil until the first store, and
\* no later step changes metadataSize, pieceCount or the number of slots.
C10_ExtensionParameters ==
  /\ [](AfterExt =>
          /\ metadataSize \in 0..16777216
          /\ pieceCount \in 0..1024
          /\ pieceCount * 16384 >= metadataSize
          /\ (pieceCount - 1) * 16384 < metadataSize
          /\ Len(pieces) = pieceCount
          /\ pc \in {"Begin", "Request"} => \A k \in 1..pieceCount : pieces[k].nil)
  /\ [][AfterExt =>
          /\ metadataSize' = metadataSize
          /\ pieceCount' = pieceCount
          /\ Len(pieces') = Len(pieces)]_vars
\* The largest metadata allowed was announced: 1024 empty slots.
C10_Witness ==
  /\ pc = "Begin"
  /\ metadataSize = maxMetadataSize
  /\ pieceCount = 1024
  /\ Len(pieces) = 1024

\* C11: when the peer closes the stream inside a frame (after fewer than 4
\* length bytes, or after fewer payload bytes than the length declares) the
\* read returns EOF or unexpected EOF and the session ends in Failed; no byte
\* of the partial frame reaches data, the piece table or the extension
\* parameters, and nothing is returned.
C11_TruncatedIsError ==
  [][truncated' =>
       /\ pc' = "Failed"
       /\ err' \in {"EOF", "unexpected EOF"}
       /\ data' = data
       /\ pieces' = pieces
       /\ metadataSize' = metadataSize
       /\ utMetadata' = utMetadata
       /\ pieceCount' = pieceCount
       /\ ret'.nil]_vars
\* The stream ended inside the payload of a frame after a piece was stored.
C11_Witness ==
  /\ truncated
  /\ pc = "Failed"
  /\ err = "unexpected EOF"
  /\ deadline = 30
  /\ \E k \in 1..Len(pieces) : ~pieces[k].nil

\* C12: once a write on the connection has failed (base handshake,
\* extension handshake frame or a piece request) the session is in Failed
\* with an error, so no later read or write is made.
C12_WriteFailureAborts == wfail => (pc = "Failed" /\ err # NoErr)

\* C13: the second write of the session is the extension handshake frame:
\* the 4-byte big-endian length of the payload, then the payload 20, 0,
\* d1:md11:ut_metadatai1eee itself, and building it never fails.
C13_ExtHandshakeOnWire ==
  /\ Len(sent) >= 2 =>
       /\ sent[2] = PutUint32(Len(extHandShakeData)) \o extHandShakeData
       /\ sent[2][5] = 20 /\ sent[2][6] = 0
  /\ err # "bencode: can't encode type"

\* C14: the sub-id byte (the second payload byte) of every piece request on
\* the wire is the ut_metadata id the peer announced, whatever integer the
\* extension handshake accepted.
C14_RequestCarriesPeerId ==
  \A k \in 1..Len(sent) : IsPieceRequest(sent[k]) => sent[k][6] = utMetadata

\* The dictionary of the k-th write of the session, read as a piece request
\* {"msg_type": mt, "piece": idx} behind the length and the two id bytes.
IsRequestFor(r, mt, idx) ==
  /\ r.ok
  /\ DOMAIN r.dict = {KeyMsgType, KeyPiece}
  /\ IsInt64(r.dict, KeyMsgType) /\ r.dict[KeyMsgType].n = mt
  /\ IsInt64(r.dict, KeyPiece) /\ r.dict[KeyPiece].n = idx
\* Begin has sent exactly the requests for indexes 0..n-1, in that order.
RequestsSent(n) ==
  /\ Len(sent) = 2 + n
  /\ \A k \in 1..n :
       /\ Uint32(sent[2 + k]) = Len(sent[2 + k]) - 4
       /\ sent[2 + k][5] = extended
       /\ IsRequestFor(Decode(SubSeq(sent[2 + k], 7, Len(sent[2 + k]))), 0, k - 1)

\* C15: the writes of Begin are the requests for indexes 0, 1, ... in
\* ascending order, each with msg_type 0; when the first frame is read (and
\* from then on) exactly pieceCount of them have been written, and no step
\* of the response loop writes anything more.
C15_RequestsThenResponses ==
  /\ [](deadline = 30 =>
          IF pc = "Request" THEN i < pieceCount /\ RequestsSent(i)
          ELSE RequestsSent(pieceCount))
  /\ [][(deadline = 30 /\ pc # "Request") => sent' = sent]_vars
  /\ [][pc = "Request" => data' = data]_vars
\* All MaxPieces requests went out and the metadata came back.
C15_Witness ==
  /\ pc = "Done"
  /\ pieceCount = MaxPieces
  /\ Len(sent) = 2 + MaxPieces

\* A frame the response loop must skip: its first byte is not 20, or its
\* second byte is not 1.
Skippable(f) == (Len(f) >= 1 /\ f[1] # 20) \/ (Len(f) >= 2 /\ f[2] # 1)

\* C16: a turn of the response loop that reads a frame whose first byte is
\* not 20 or whose second byte is not 1 changes neither the piece table nor
\* the extension parameters, raises no error, returns nothing, and leaves
\* the session reading on the open connection.
C16_NonMatchingSkipped ==
  [][(pc = "Read" /\ Skippable(data') /\ err' \notin ReadErrors) =>
       /\ pc' = "Read"
       /\ err' = NoErr
       /\ conn' = "open"
       /\ pieces' = pieces
       /\ metadataSize' = metadataSize
       /\ utMetadata' = utMetadata
       /\ pieceCount' = pieceCount
       /\ ret' = ret]_vars
\* A frame for another sub-id was read after a piece had been stored.
C16_Witness ==
  /\ pc = "Read"
  /\ data = PieceFrame(2, 1, 0, PieceData(0))
  /\ \E k \in 1..Len(pieces) : ~pieces[k].nil

\* Data replies for index idx carrying the bytes d whose header holds only
\* integer fields: msg_type and piece, and with total_size as well.
IntegerHeaderReplies(idx, d) ==
  {PieceFrame(1, 1, idx, d), PieceFrameTotal(idx, perBlock, d)}
\* A matching frame whose payload has no "ee".
NoMarkerFrame == <<extended, 1>> \o PieceData(0)

\* C17: a data reply for an index in range whose header holds only the
\* integer fields msg_type, piece and optionally total_size leaves exactly
\* the bytes behind the header in the slot of its index, also when those
\* bytes are empty or are "ee" themselves; a matching frame without "ee"
\* ends the session with an error and writes no slot.
C17_PayloadAfterHeader ==
  [][(pc = "Read" /\ err' \notin ReadErrors /\ Len(data') > 2) =>
       /\ \A idx \in 0..(pieceCount - 1) : \A d \in {PieceData(idx), AltData(idx)} :
            data' \in IntegerHeaderReplies(idx, d) =>
              /\ pieces'[idx + 1] = Slice(d)
              /\ pc' \in {"Read", "Done", "Failed"}
              /\ pc' = "Failed" => err' = ChecksumErr
       /\ data' = NoMarkerFrame =>
            /\ pc' = "Failed"
            /\ err' = "ee == 1"
            /\ pieces' = pieces]_vars
\* Slot 1 holds piece bytes that are themselves "ee".
C17_Witness ==
  /\ data = PieceFrame(1, 1, 1, <<Ch.e, Ch.e>>)
  /\ pieceCount >= 2
  /\ pieces[2] = Slice(<<Ch.e, Ch.e>>)

\* Begin has returned to Start with bytes or with an error.
BeginReturned == pc \in {"Done", "Failed"}

\* C18: once Begin has set its 30 s deadline, Begin eventually returns: the
\* session reaches Done or Failed whatever the peer sends.
C18_BeginReturns == (deadline = 30) ~> BeginReturned
\* The weaker statement: the response loop does not run forever (Begin
\* returns or the program dies in a panic).
C18_BeginStops == (deadline = 30) ~> (BeginReturned \/ pc = "Crashed")

\* C19: a read of extHandShake or of the response loop that delivers a
\* frame of fewer than 2 bytes (declared length 0 or 1) does not crash the
\* session: the frame is skipped or the session fails with an error.
C19_ShortFrameNoCrash ==
  [][(pc \in {"ExtRead", "Read"} /\ Len(data') < 2 /\ err' \notin ReadErrors) =>
       /\ pc' # "Crashed"
       /\ pc' \in {pc, "Failed"}]_vars

\* The length the piece in slot k (index k - 1) is expected to have.
ExpectedLen(k) ==
  IF k < pieceCount \/ metadataSize % perBlock = 0 THEN perBlock ELSE metadataSize % perBlock

\* C20: when Begin has returned the metadata, every slot holds a piece of
\* its expected length and the bytes returned are metadataSize long.
C20_ReturnedLength ==
  pc = "Done" =>
    /\ \A k \in 1..pieceCount : Len(pieces[k].b) = ExpectedLen(k)
    /\ Len(ret.b) = metadataSize
====
